---- MODULE Spec2Model ----
(***************************************************************************)
(* Model of pkg/clients/ssl/ssl.go: the SslCertificate client (Create,     *)
(* Delete, Exists, Get, List), its operation waiter waitFor and the Error  *)
(* type returned for an operation that is DONE with error detail.          *)
(*                                                                         *)
(* The GCE service is the environment: every RPC response is drawn from a  *)
(* small set.  A blocking RPC is two steps (request issued, response       *)
(* returned) so that a cancellation of the caller's context can fall       *)
(* before, during or after it.                                             *)
(***************************************************************************)
EXTENDS Integers, Sequences, FiniteSets, TLC

----------------------------------------------------------------------------
(* Bounds *)

NumCalls == 2
MaxPolls == 3
MaxErrors == 2
MaxItems == 2

----------------------------------------------------------------------------
(* Program constants *)

codeQuotaExceeded == "QUOTA_EXCEEDED"
statusDone == "DONE"
typeManaged == "MANAGED"

----------------------------------------------------------------------------
(* Values exchanged with the GCE service *)

Calls == 1..NumCalls

Projects == {"project-1", "project-2"}
Names == {"cert-a", "cert-b"}
DomainLists == {<<"example.com">>, <<"a.example.com", "b.example.com">>}
OpNames == {"op-1", "op-2"}

SeqsUpTo(S, n) == UNION {[1..k -> S] : k \in 0..n}

\* the nil error
NilErr == [kind |-> "nil", code |-> 0, msg |-> ""]

\* errors an RPC's Do() can return
RpcErrors ==
    { [kind |-> "googleapi.Error", code |-> 404, msg |-> "googleapi: Error 404: notFound"],
      [kind |-> "googleapi.Error", code |-> 400, msg |-> "googleapi: Error 400: invalid"],
      [kind |-> "net.OpError", code |-> 0, msg |-> "connection reset by peer"] }

\* compute.OperationErrorErrors
ErrorEntries ==
    { [Code |-> "QUOTA_EXCEEDED", Message |-> "limit reached"],
      [Code |-> "quota_exceeded", Message |-> "limit reached"],
      [Code |-> "RESOURCE_NOT_READY", Message |-> "QUOTA_EXCEEDED"] }

\* compute.Operation.Error: a nil pointer, or a struct holding Errors
NilOperationError == [isNil |-> TRUE, Errors |-> <<>>]
OperationErrors ==
    {NilOperationError}
      \cup {[isNil |-> FALSE, Errors |-> es] : es \in SeqsUpTo(ErrorEntries, MaxErrors)}

HttpFields == { [msg |-> "", code |-> 0], [msg |-> "Forbidden", code |-> 403] }

Statuses == {"PENDING", "RUNNING", "DONE"}

\* compute.Operation
Operations ==
    { [Name |-> n, Status |-> s, Error |-> e,
       HttpErrorMessage |-> h.msg, HttpErrorStatusCode |-> h.code] :
         n \in OpNames, s \in Statuses, e \in OperationErrors, h \in HttpFields }

NoOperation ==
    [Name |-> "", Status |-> "", Error |-> NilOperationError,
     HttpErrorMessage |-> "", HttpErrorStatusCode |-> 0]

\* (operation, err) as returned by a Do() that yields an operation
OpResponses ==
    {[operation |-> o, err |-> NilErr] : o \in Operations}
      \cup {[operation |-> NoOperation, err |-> e] : e \in RpcErrors}

\* the response of the mutating RPC: only the operation's name is read
MutateResponses ==
    {[operation |-> [NoOperation EXCEPT !.Name = n, !.Status = "PENDING"], err |-> NilErr] :
        n \in OpNames}
      \cup {[operation |-> NoOperation, err |-> e] : e \in RpcErrors}

NoResponse == [operation |-> NoOperation, err |-> NilErr]

\* compute.SslCertificate
SslCertificate(name, domains) ==
    [Name |-> name, Type |-> typeManaged, Managed |-> [Domains |-> domains]]

Certificates == {SslCertificate(n, d) : n \in Names, d \in DomainLists}

NoCertificate == [Name |-> "", Type |-> "", Managed |-> [Domains |-> <<>>]]

GetResponses ==
    {[cert |-> x, err |-> NilErr] : x \in Certificates}
      \cup {[cert |-> NoCertificate, err |-> e] : e \in RpcErrors}

ListResponses ==
    {[Items |-> xs, isNil |-> FALSE, err |-> NilErr] : xs \in SeqsUpTo(Certificates, MaxItems)}
      \cup {[Items |-> <<>>, isNil |-> TRUE, err |-> e] : e \in RpcErrors}

CtxErrors ==
    { [kind |-> "context", code |-> 0, msg |-> "context canceled"],
      [kind |-> "context", code |-> 0, msg |-> "context deadline exceeded"] }

----------------------------------------------------------------------------
(* State *)

VARIABLES
    projectID,   \* sslImpl.projectID
    pc,          \* pc[c]: position of call c
    args,        \* args[c]: the arguments of call c
    mutated,     \* mutated[c]: (operation, err) returned by the mutating RPC
    opName,      \* opName[c]: operationName handed to waitFor
    ctx,         \* ctx[c]: ctx.Err() of the call's context (NilErr: not done)
    fetched,     \* fetched[c]: (operation, err) of the current loop iteration
    result,      \* result[c]: the error returned by the call
    trace,       \* trace[c]: what call c did and when its context was cancelled
    sync         \* the last Exists / Get / List call and what it returned

vars == <<projectID, pc, args, mutated, opName, ctx, fetched, result, trace, sync>>

callVars == <<pc, args, mutated, opName, ctx, fetched, result, trace>>

NoArgs == [kind |-> "", name |-> "", domains |-> <<>>]

NoSync == [op |-> "none", rpcs |-> <<>>]

\* an RPC as issued to the service
Rpc(method, project, arg) == [ev |-> "rpc", method |-> method, project |-> project, arg |-> arg]

Ev(e) == [ev |-> e, method |-> "", project |-> "", arg |-> ""]

Init ==
    /\ projectID \in Projects
    /\ pc = [c \in Calls |-> "idle"]
    /\ args = [c \in Calls |-> NoArgs]
    /\ mutated = [c \in Calls |-> NoResponse]
    /\ opName = [c \in Calls |-> ""]
    /\ ctx = [c \in Calls |-> NilErr]
    /\ fetched = [c \in Calls |-> NoResponse]
    /\ result = [c \in Calls |-> NilErr]
    /\ trace = [c \in Calls |-> <<>>]
    /\ sync = NoSync

----------------------------------------------------------------------------
(* Error *)

\* ssl.Error wrapping an operation
Error(operation) == [kind |-> "ssl.Error", code |-> 0, msg |-> "", operation |-> operation]

RECURSIVE IsQuotaExceededFrom(_, _)
IsQuotaExceededFrom(errors, i) ==
    IF i > Len(errors) THEN FALSE
    ELSE IF errors[i].Code = codeQuotaExceeded THEN TRUE
    ELSE IsQuotaExceededFrom(errors, i + 1)

\* variant: only the first entry is examined
IsQuotaExceeded_FirstOnly(s) ==
    /\ Len(s.operation.Error.Errors) > 0
    /\ s.operation.Error.Errors[1].Code = codeQuotaExceeded

IsQuotaExceeded(s) == IsQuotaExceededFrom(s.operation.Error.Errors, 1)

----------------------------------------------------------------------------
(* Create, Delete *)

\* the caller's context is cancelled or its deadline passes
Cancel(c) ==
    /\ ctx[c] = NilErr
    /\ \E e \in CtxErrors : ctx' = [ctx EXCEPT ![c] = e]
    /\ trace' = [trace EXCEPT ![c] = Append(@, Ev("cancel"))]
    /\ UNCHANGED <<projectID, pc, args, mutated, opName, fetched, result, sync>>

\* Create up to the point where Insert(...).Do() is in flight
Create(c) ==
    /\ pc[c] = "idle"
    /\ \E name \in Names, domains \in DomainLists :
         /\ args' = [args EXCEPT ![c] = [kind |-> "Create", name |-> name, domains |-> domains]]
         /\ trace' = [trace EXCEPT ![c] =
               Append(@, Rpc("SslCertificates.Insert", projectID, SslCertificate(name, domains)))]
    /\ pc' = [pc EXCEPT ![c] = "mutating"]
    /\ UNCHANGED <<projectID, mutated, opName, ctx, fetched, result, sync>>

\* Delete up to the point where Delete(...).Do() is in flight
Delete(c) ==
    /\ pc[c] = "idle"
    /\ \E name \in Names :
         /\ args' = [args EXCEPT ![c] = [kind |-> "Delete", name |-> name, domains |-> <<>>]]
         /\ trace' = [trace EXCEPT ![c] =
               Append(@, Rpc("SslCertificates.Delete", projectID, name))]
    /\ pc' = [pc EXCEPT ![c] = "mutating"]
    /\ UNCHANGED <<projectID, mutated, opName, ctx, fetched, result, sync>>

\* variant: the error of the mutating RPC is not looked at
AfterMutate_IgnoresErr(c, resp) ==
    /\ mutated' = [mutated EXCEPT ![c] = resp]
    /\ opName' = [opName EXCEPT ![c] = resp.operation.Name]
    /\ pc' = [pc EXCEPT ![c] = "waitFor"]
    /\ UNCHANGED <<result, trace>>

\* variant: a rejected mutating RPC is issued again
AfterMutate_Retries(c, resp) ==
    /\ mutated' = [mutated EXCEPT ![c] = resp]
    /\ IF resp.err # NilErr
       THEN /\ pc' = [pc EXCEPT ![c] = "mutating"]
            /\ trace' = [trace EXCEPT ![c] = Append(@, @[Len(@)])]
            /\ UNCHANGED <<opName, result>>
       ELSE /\ opName' = [opName EXCEPT ![c] = resp.operation.Name]
            /\ pc' = [pc EXCEPT ![c] = "waitFor"]
            /\ UNCHANGED <<result, trace>>

\* variant: the waiter suspends once before its first fetch
AfterMutate_SleepsFirst(c, resp) ==
    /\ mutated' = [mutated EXCEPT ![c] = resp]
    /\ IF resp.err # NilErr
       THEN /\ result' = [result EXCEPT ![c] = resp.err]
            /\ pc' = [pc EXCEPT ![c] = "returned"]
            /\ trace' = [trace EXCEPT ![c] = Append(@, Ev("return"))]
            /\ UNCHANGED opName
       ELSE /\ opName' = [opName EXCEPT ![c] = resp.operation.Name]
            /\ pc' = [pc EXCEPT ![c] = "waitFor"]
            /\ trace' = [trace EXCEPT ![c] = Append(@, Ev("slept"))]
            /\ UNCHANGED result

\* what Create / Delete do with the (operation, err) of the mutating RPC
AfterMutate(c, resp) ==
    /\ mutated' = [mutated EXCEPT ![c] = resp]
    /\ IF resp.err # NilErr
       THEN /\ result' = [result EXCEPT ![c] = resp.err]
            /\ pc' = [pc EXCEPT ![c] = "returned"]
            /\ trace' = [trace EXCEPT ![c] = Append(@, Ev("return"))]
            /\ UNCHANGED opName
       ELSE /\ opName' = [opName EXCEPT ![c] = resp.operation.Name]
            /\ pc' = [pc EXCEPT ![c] = "waitFor"]
            /\ UNCHANGED <<result, trace>>

\* Insert(...).Do() returns in Create
CreateReturns(c) ==
    /\ pc[c] = "mutating"
    /\ args[c].kind = "Create"
    /\ \E resp \in MutateResponses : AfterMutate(c, resp)
    /\ UNCHANGED <<projectID, args, ctx, fetched, sync>>

\* Delete(...).Do() returns in Delete
DeleteReturns(c) ==
    /\ pc[c] = "mutating"
    /\ args[c].kind = "Delete"
    /\ \E resp \in MutateResponses : AfterMutate(c, resp)
    /\ UNCHANGED <<projectID, args, ctx, fetched, sync>>

----------------------------------------------------------------------------
(* waitFor *)

IsFetch(e) == e.ev = "rpc" /\ e.method = "GlobalOperations.Get"
IsMutate(e) == e.ev = "rpc" /\ e.method \in {"SslCertificates.Insert", "SslCertificates.Delete"}
IsSlept(e) == e.ev = "slept"
IsFetched(e) == e.ev = "fetched"

\* numbers of events in the trace of call c
NumFetches(c) == Len(SelectSeq(trace[c], IsFetch))
NumFetched(c) == Len(SelectSeq(trace[c], IsFetched))
NumMutates(c) == Len(SelectSeq(trace[c], IsMutate))
NumSlept(c) == Len(SelectSeq(trace[c], IsSlept))

\* the error waitFor makes of a failing fetch
CouldNotGet(operationName, err) ==
    [kind |-> "fmt.wrapError", code |-> 0,
     msg |-> "could not get operation " \o operationName \o ": " \o err.msg]

\* variant: a DONE operation is a failure whether or not it has error detail
Classify_DoneAlwaysError(operationName, resp) ==
    IF resp.err # NilErr
    THEN [return |-> TRUE, err |-> CouldNotGet(operationName, resp.err)]
    ELSE IF resp.operation.Status = statusDone
         THEN [return |-> TRUE, err |-> Error(resp.operation)]
         ELSE [return |-> FALSE, err |-> NilErr]

\* variant: the Error keeps the error detail but not the rest of the operation
Classify_WrapsDetailOnly(operationName, resp) ==
    IF resp.err # NilErr
    THEN [return |-> TRUE, err |-> CouldNotGet(operationName, resp.err)]
    ELSE IF resp.operation.Status = statusDone
         THEN IF resp.operation.Error.isNil
              THEN [return |-> TRUE, err |-> NilErr]
              ELSE [return |-> TRUE,
                    err |-> Error([NoOperation EXCEPT !.Error = resp.operation.Error])]
         ELSE [return |-> FALSE, err |-> NilErr]

\* variant: a failing fetch is tried again after the suspend
Classify_RetriesFetchError(operationName, resp) ==
    IF resp.err # NilErr
    THEN [return |-> FALSE, err |-> NilErr]
    ELSE IF resp.operation.Status = statusDone
         THEN IF resp.operation.Error.isNil
              THEN [return |-> TRUE, err |-> NilErr]
              ELSE [return |-> TRUE, err |-> Error(resp.operation)]
         ELSE [return |-> FALSE, err |-> NilErr]

\* variant: an operation without error detail is a success whatever its status
Classify_NoErrorIsSuccess(operationName, resp) ==
    IF resp.err # NilErr
    THEN [return |-> TRUE, err |-> CouldNotGet(operationName, resp.err)]
    ELSE IF resp.operation.Error.isNil
         THEN [return |-> TRUE, err |-> NilErr]
         ELSE IF resp.operation.Status = statusDone
              THEN [return |-> TRUE, err |-> Error(resp.operation)]
              ELSE [return |-> FALSE, err |-> NilErr]

\* variant: error detail is looked at before the status
Classify_ErrorBeforeStatus(operationName, resp) ==
    IF resp.err # NilErr
    THEN [return |-> TRUE, err |-> CouldNotGet(operationName, resp.err)]
    ELSE IF ~resp.operation.Error.isNil
         THEN [return |-> TRUE, err |-> Error(resp.operation)]
         ELSE IF resp.operation.Status = statusDone
              THEN [return |-> TRUE, err |-> NilErr]
              ELSE [return |-> FALSE, err |-> NilErr]

\* variant: error detail counts only when it has entries
Classify_EmptyDetailIsSuccess(operationName, resp) ==
    IF resp.err # NilErr
    THEN [return |-> TRUE, err |-> CouldNotGet(operationName, resp.err)]
    ELSE IF resp.operation.Status = statusDone
         THEN IF resp.operation.Error.isNil \/ Len(resp.operation.Error.Errors) = 0
              THEN [return |-> TRUE, err |-> NilErr]
              ELSE [return |-> TRUE, err |-> Error(resp.operation)]
         ELSE [return |-> FALSE, err |-> NilErr]

\* the part of a loop iteration after the fetch: whether waitFor returns, and what
Classify(operationName, resp) ==
    IF resp.err # NilErr
    THEN [return |-> TRUE, err |-> CouldNotGet(operationName, resp.err)]
    ELSE IF resp.operation.Status = statusDone
         THEN IF resp.operation.Error.isNil
              THEN [return |-> TRUE, err |-> NilErr]
              ELSE [return |-> TRUE, err |-> Error(resp.operation)]
         ELSE [return |-> FALSE, err |-> NilErr]

\* variant: ctx is looked at before each fetch
WaitForFetch_ChecksCtx(c) ==
    /\ pc[c] = "waitFor"
    /\ NumFetches(c) < MaxPolls
    /\ IF ctx[c] # NilErr
       THEN /\ result' = [result EXCEPT ![c] = ctx[c]]
            /\ pc' = [pc EXCEPT ![c] = "returned"]
            /\ trace' = [trace EXCEPT ![c] = Append(@, Ev("return"))]
       ELSE /\ trace' = [trace EXCEPT ![c] =
                  Append(@, Rpc("GlobalOperations.Get", projectID, opName[c]))]
            /\ pc' = [pc EXCEPT ![c] = "fetching"]
            /\ UNCHANGED result
    /\ UNCHANGED <<projectID, args, mutated, opName, ctx, fetched, sync>>

\* variant: the status is queried in a fixed project
WaitForFetch_FixedProject(c) ==
    /\ pc[c] = "waitFor"
    /\ NumFetches(c) < MaxPolls
    /\ trace' = [trace EXCEPT ![c] = Append(@, Rpc("GlobalOperations.Get", "project-1", opName[c]))]
    /\ pc' = [pc EXCEPT ![c] = "fetching"]
    /\ UNCHANGED <<projectID, args, mutated, opName, ctx, fetched, result, sync>>

\* variant: the operation name is kept in one place for all calls
WaitForFetch_SharedOpName(c) ==
    /\ pc[c] = "waitFor"
    /\ NumFetches(c) < MaxPolls
    /\ trace' = [trace EXCEPT ![c] = Append(@, Rpc("GlobalOperations.Get", projectID, opName[1]))]
    /\ pc' = [pc EXCEPT ![c] = "fetching"]
    /\ UNCHANGED <<projectID, args, mutated, opName, ctx, fetched, result, sync>>

\* head of the loop: GlobalOperations.Get(...).Do() is issued
WaitForFetch(c) ==
    /\ pc[c] = "waitFor"
    /\ NumFetches(c) < MaxPolls
    /\ trace' = [trace EXCEPT ![c] = Append(@, Rpc("GlobalOperations.Get", projectID, opName[c]))]
    /\ pc' = [pc EXCEPT ![c] = "fetching"]
    /\ UNCHANGED <<projectID, args, mutated, opName, ctx, fetched, result, sync>>

\* the fetch returns; waitFor returns or enters the select
WaitForFetchReturns(c) ==
    /\ pc[c] = "fetching"
    /\ \E resp \in OpResponses :
         LET cl == Classify(opName[c], resp) IN
         /\ fetched' = [fetched EXCEPT ![c] = resp]
         /\ IF cl.return
            THEN /\ result' = [result EXCEPT ![c] = cl.err]
                 /\ pc' = [pc EXCEPT ![c] = "returned"]
                 /\ trace' = [trace EXCEPT ![c] = @ \o <<Ev("fetched"), Ev("return")>>]
            ELSE /\ pc' = [pc EXCEPT ![c] = "select"]
                 /\ trace' = [trace EXCEPT ![c] = Append(@, Ev("fetched"))]
                 /\ UNCHANGED result
    /\ UNCHANGED <<projectID, args, mutated, opName, ctx, sync>>

\* variant: the timer case can be taken although ctx is done
WaitForTimer_IgnoresCtx(c) ==
    /\ pc[c] = "select"
    /\ pc' = [pc EXCEPT ![c] = "waitFor"]
    /\ fetched' = [fetched EXCEPT ![c] = NoResponse]
    /\ trace' = [trace EXCEPT ![c] = Append(@, Ev("slept"))]
    /\ UNCHANGED <<projectID, args, mutated, opName, ctx, result, sync>>

\* variant: the waiter gives up after its second suspend
WaitForTimer_Deadline(c) ==
    /\ pc[c] = "select"
    /\ ctx[c] = NilErr
    /\ fetched' = [fetched EXCEPT ![c] = NoResponse]
    /\ IF NumSlept(c) >= 1
       THEN /\ pc' = [pc EXCEPT ![c] = "returned"]
            /\ result' = [result EXCEPT ![c] =
                  [kind |-> "timeout", code |-> 0, msg |-> "timed out waiting for operation"]]
            /\ trace' = [trace EXCEPT ![c] = @ \o <<Ev("slept"), Ev("return")>>]
       ELSE /\ pc' = [pc EXCEPT ![c] = "waitFor"]
            /\ trace' = [trace EXCEPT ![c] = Append(@, Ev("slept"))]
            /\ UNCHANGED result
    /\ UNCHANGED <<projectID, args, mutated, opName, ctx, sync>>

\* select: time.After(10 * time.Second) fires before ctx is done
WaitForTimer(c) ==
    /\ pc[c] = "select"
    /\ ctx[c] = NilErr
    /\ pc' = [pc EXCEPT ![c] = "waitFor"]
    /\ fetched' = [fetched EXCEPT ![c] = NoResponse]
    /\ trace' = [trace EXCEPT ![c] = Append(@, Ev("slept"))]
    /\ UNCHANGED <<projectID, args, mutated, opName, ctx, result, sync>>

\* variant: a done ctx ends the suspend but the loop goes on
WaitForCtxDone_Continues(c) ==
    /\ pc[c] = "select"
    /\ ctx[c] # NilErr
    /\ pc' = [pc EXCEPT ![c] = "waitFor"]
    /\ fetched' = [fetched EXCEPT ![c] = NoResponse]
    /\ UNCHANGED <<projectID, args, mutated, opName, ctx, result, trace, sync>>

\* variant: ctx is also watched while the fetch is in flight
WaitForCtxDone_PreemptsFetch(c) ==
    /\ pc[c] \in {"select", "fetching"}
    /\ ctx[c] # NilErr
    /\ result' = [result EXCEPT ![c] = ctx[c]]
    /\ pc' = [pc EXCEPT ![c] = "returned"]
    /\ trace' = [trace EXCEPT ![c] = Append(@, Ev("return"))]
    /\ UNCHANGED <<projectID, args, mutated, opName, ctx, fetched, sync>>

\* variant: the remote operation is deleted when the wait is abandoned
WaitForCtxDone_CancelsRemote(c) ==
    /\ pc[c] = "select"
    /\ ctx[c] # NilErr
    /\ result' = [result EXCEPT ![c] = ctx[c]]
    /\ pc' = [pc EXCEPT ![c] = "returned"]
    /\ trace' = [trace EXCEPT ![c] =
          @ \o <<Rpc("GlobalOperations.Delete", projectID, opName[c]), Ev("return")>>]
    /\ UNCHANGED <<projectID, args, mutated, opName, ctx, fetched, sync>>

\* select: ctx.Done() is ready; waitFor returns ctx.Err()
WaitForCtxDone(c) ==
    /\ pc[c] = "select"
    /\ ctx[c] # NilErr
    /\ result' = [result EXCEPT ![c] = ctx[c]]
    /\ pc' = [pc EXCEPT ![c] = "returned"]
    /\ trace' = [trace EXCEPT ![c] = Append(@, Ev("return"))]
    /\ UNCHANGED <<projectID, args, mutated, opName, ctx, fetched, sync>>

----------------------------------------------------------------------------
(* Exists, Get, List *)

\* utilshttp.IsNotFound
IsNotFound(err) == err.kind = "googleapi.Error" /\ err.code = 404

\* Get hands back what SslCertificates.Get(...).Do() returned
GetResult(resp) == [cert |-> resp.cert, err |-> resp.err]

\* variant: every error of Get counts as not found
ExistsResult_AnyErrorIsAbsent(resp) ==
    LET got == GetResult(resp) IN
    IF got.err = NilErr THEN [exists |-> TRUE, err |-> NilErr]
    ELSE [exists |-> FALSE, err |-> NilErr]

\* Exists, given what the Get RPC returned
ExistsResult(resp) ==
    LET got == GetResult(resp) IN
    IF got.err = NilErr THEN [exists |-> TRUE, err |-> NilErr]
    ELSE IF IsNotFound(got.err) THEN [exists |-> FALSE, err |-> NilErr]
    ELSE [exists |-> FALSE, err |-> got.err]

\* variant: the items come back in the opposite order
ListResult_Reversed(resp) ==
    IF resp.err # NilErr THEN [Items |-> <<>>, isNil |-> TRUE, err |-> resp.err]
    ELSE [Items |-> [i \in 1..Len(resp.Items) |-> resp.Items[Len(resp.Items) + 1 - i]],
          isNil |-> FALSE, err |-> NilErr]

\* List, given what the List RPC returned
ListResult(resp) ==
    IF resp.err # NilErr THEN [Items |-> <<>>, isNil |-> TRUE, err |-> resp.err]
    ELSE [Items |-> resp.Items, isNil |-> FALSE, err |-> NilErr]

Exists ==
    /\ \E name \in Names, resp \in GetResponses :
         sync' = [op |-> "Exists", name |-> name, resp |-> resp,
                  rpcs |-> <<Rpc("SslCertificates.Get", projectID, name)>>,
                  ret |-> ExistsResult(resp)]
    /\ UNCHANGED <<projectID, callVars>>

Get ==
    /\ \E name \in Names, resp \in GetResponses :
         sync' = [op |-> "Get", name |-> name, resp |-> resp,
                  rpcs |-> <<Rpc("SslCertificates.Get", projectID, name)>>,
                  ret |-> GetResult(resp)]
    /\ UNCHANGED <<projectID, callVars>>

List ==
    /\ \E resp \in ListResponses :
         sync' = [op |-> "List", name |-> "", resp |-> resp,
                  rpcs |-> <<Rpc("SslCertificates.List", projectID, "")>>,
                  ret |-> ListResult(resp)]
    /\ UNCHANGED <<projectID, callVars>>

----------------------------------------------------------------------------
(* Specifications *)

\* one Create or Delete call and its context
CallStep(c) ==
    \/ Cancel(c)
    \/ Create(c)
    \/ Delete(c)
    \/ CreateReturns(c)
    \/ DeleteReturns(c)
    \/ WaitForFetch(c)
    \/ WaitForFetchReturns(c)
    \/ WaitForTimer(c)
    \/ WaitForCtxDone(c)

Next == CallStep(1)

Spec == Init /\ [][Next]_vars

\* the synchronous reads
NextSync ==
    \/ Exists
    \/ Get
    \/ List

SpecSync == Init /\ [][NextSync]_vars

\* The specifications below run more than one operation of the same sslImpl.
\* They keep the responses of the service to a few representatives: one
\* certificate, one transport error, error detail of at most one entry on a
\* DONE operation, and two polls for each call.
SmallCall(c) ==
    /\ args[c].name \in {"", "cert-a"}
    /\ args[c].domains \in {<<>>, <<"example.com">>}
    /\ ctx[c].msg # "context deadline exceeded"
    /\ mutated[c].err.kind \in {"nil", "net.OpError"}
    /\ fetched[c].err.kind \in {"nil", "net.OpError"}
    /\ fetched[c].operation.Name \in {"", opName[c]}
    /\ fetched[c].operation.Status # "PENDING"
    /\ fetched[c].operation.HttpErrorStatusCode = 0
    /\ fetched[c].operation.Status = "RUNNING" => fetched[c].operation.Error.isNil
    /\ \A i \in DOMAIN fetched[c].operation.Error.Errors :
         /\ i = 1
         /\ fetched[c].operation.Error.Errors[i].Code = codeQuotaExceeded
    /\ NumFetches(c) <= 2

SmallSync ==
    sync.op # "none"
        => /\ sync.name \in {"", "cert-a"}
           /\ sync.resp.err.kind \in {"nil", "net.OpError"}
           /\ sync.op \in {"Exists", "Get"}
                => sync.resp.cert \in {NoCertificate, SslCertificate("cert-a", <<"example.com">>)}
           /\ sync.op = "List"
                => \A i \in DOMAIN sync.resp.Items :
                     /\ i = 1
                     /\ sync.resp.Items[i] = SslCertificate("cert-a", <<"example.com">>)

SmallWorld == SmallSync /\ \A c \in Calls : SmallCall(c)

\* two calls of one sslImpl, each a goroutine of its own
NextConc == (CallStep(1) \/ CallStep(2)) /\ SmallWorld'

SpecConc == Init /\ [][NextConc]_vars

\* a call and the reads of one sslImpl, in any order
NextProject == (CallStep(1) \/ NextSync) /\ SmallWorld'

SpecProject == Init /\ [][NextProject]_vars

----------------------------------------------------------------------------
(* Vocabulary of the properties *)

Returned(c) == pc[c] = "returned"

NotCancel(e) == e.ev # "cancel"

\* what call c itself did, without the cancellation of its context
Acts(c) == SelectSeq(trace[c], NotCancel)

\* the call's last step was to return
EndsWithReturn(c) ==
    /\ Len(Acts(c)) > 0
    /\ Acts(c)[Len(Acts(c))].ev = "return"

\* the call returned straight after the response of a status fetch
EndsWithFetchReturn(c) ==
    LET a == Acts(c) IN
    /\ Len(a) >= 3
    /\ a[Len(a)].ev = "return"
    /\ a[Len(a) - 1].ev = "fetched"
    /\ IsFetch(a[Len(a) - 2])

\* status fetches issued and not yet returned
Outstanding(c) == NumFetches(c) - NumFetched(c)

\* position of the cancellation in the trace, 0 when ctx is not done
CancelIdx(c) ==
    IF \E i \in DOMAIN trace[c] : trace[c][i].ev = "cancel"
    THEN CHOOSE i \in DOMAIN trace[c] : trace[c][i].ev = "cancel"
    ELSE 0

FetchesAfterCancel(c) ==
    Cardinality({i \in DOMAIN trace[c] : i > CancelIdx(c) /\ IsFetch(trace[c][i])})

FetchesBeforeCancel(c) ==
    Cardinality({i \in DOMAIN trace[c] : i < CancelIdx(c) /\ IsFetch(trace[c][i])})

SleptAfterCancel(c) ==
    Cardinality({i \in DOMAIN trace[c] : i > CancelIdx(c) /\ IsSlept(trace[c][i])})

\* ctx became done while a status fetch was in flight
CancelledDuringFetch(c) ==
    /\ CancelIdx(c) > 1
    /\ IsFetch(trace[c][CancelIdx(c) - 1])

\* ctx became done while the waiter was suspended in the select
CancelledInSuspend(c) ==
    /\ CancelIdx(c) > 1
    /\ trace[c][CancelIdx(c) - 1].ev = "fetched"

FetchFailed(c) == fetched[c].err # NilErr

FetchedDone(c) == fetched[c].err = NilErr /\ fetched[c].operation.Status = "DONE"

FetchedDoneNoError(c) == FetchedDone(c) /\ fetched[c].operation.Error.isNil

FetchedDoneWithError(c) == FetchedDone(c) /\ ~fetched[c].operation.Error.isNil

FetchedNotDone(c) ==
    /\ fetched[c].err = NilErr
    /\ fetched[c].operation.Status \in Statuses \ {"DONE"}

\* some entry of the error list has the quota code
HasQuotaEntry(errors) == \E i \in DOMAIN errors : errors[i].Code = "QUOTA_EXCEEDED"

----------------------------------------------------------------------------
(* Properties *)

\* C1: a Create or Delete whose mutating RPC succeeded and whose status fetch,
\* after any number of not-done polls, returns DONE without error detail
\* returns nil.
C1_DoneWithoutErrorReturnsNil ==
    \A c \in Calls :
        (mutated[c].err = NilErr /\ FetchedDoneNoError(c))
            => (Returned(c) /\ result[c] = NilErr)

\* the scenario of the specification: two not-done polls, then DONE, no cancellation
C1_Witness ==
    \E c \in Calls :
        /\ args[c].kind = "Create"
        /\ ctx[c] = NilErr
        /\ NumSlept(c) = 2
        /\ NumFetches(c) = 3
        /\ FetchedDoneNoError(c)
        /\ Returned(c)
        /\ result[c] = NilErr

\* C2: a status fetch that returns a DONE operation with error detail makes the
\* call return an Error that wraps exactly the fetched operation, and the call
\* issues no further fetch.
C2_DoneWithErrorReturnsWrappedOperation ==
    \A c \in Calls :
        FetchedDoneWithError(c)
            => /\ Returned(c)
               /\ result[c].kind = "ssl.Error"
               /\ result[c].operation = fetched[c].operation
               /\ EndsWithFetchReturn(c)
               /\ Outstanding(c) = 0

C2_Witness ==
    \E c \in Calls :
        /\ FetchedDoneWithError(c)
        /\ Returned(c)
        /\ result[c].kind = "ssl.Error"
        /\ result[c].operation.HttpErrorStatusCode = 403
        /\ Len(result[c].operation.Error.Errors) = 2
        /\ NumFetches(c) = 2

\* C3: IsQuotaExceeded of a returned Error is true exactly when some entry of
\* the wrapped operation's error list has the code "QUOTA_EXCEEDED".
C3_IsQuotaExceededIffQuotaEntry ==
    \A c \in Calls :
        (Returned(c) /\ result[c].kind = "ssl.Error")
            => (IsQuotaExceeded(result[c])
                  <=> HasQuotaEntry(result[c].operation.Error.Errors))

\* the Delete scenario of the specification
C3_Witness ==
    \E c \in Calls :
        /\ args[c].kind = "Delete"
        /\ Returned(c)
        /\ result[c].kind = "ssl.Error"
        /\ result[c].operation.Error.Errors
             = <<[Code |-> "QUOTA_EXCEEDED", Message |-> "limit reached"]>>
        /\ IsQuotaExceeded(result[c])

\* C4: once ctx is done while the waiter is in the select, the next step of the
\* call returns ctx.Err() and no status fetch is issued.
C4_CancelInSuspendReturnsCtxErr ==
    [][\A c \in Calls :
          (pc[c] = "select" /\ ctx[c] # NilErr)
              => \/ pc'[c] = pc[c] /\ trace'[c] = trace[c] /\ result'[c] = result[c]
                 \/ /\ pc'[c] = "returned"
                    /\ result'[c] = ctx[c]
                    /\ NumFetches(c)' = NumFetches(c)]_vars

C4_Witness ==
    \E c \in Calls :
        /\ CancelledInSuspend(c)
        /\ Returned(c)
        /\ result[c] = ctx[c]
        /\ result[c].msg = "context canceled"
        /\ NumFetches(c) = 2

\* C5: when every fetch returns a not-done status and ctx is cancelled after N
\* polls, no complete suspend elapses and at most one status fetch is started
\* after the cancellation, and the wait returns ctx.Err().
C5_CancelReturnsWithinOneInterval ==
    \A c \in Calls :
        ctx[c] # NilErr
            => /\ SleptAfterCancel(c) = 0
               /\ FetchesAfterCancel(c) <= 1
               /\ pc[c] = "select" => ENABLED WaitForCtxDone(c)
               /\ (Returned(c) /\ FetchedNotDone(c)) => result[c] = ctx[c]

\* cancelled after two polls, before the third fetch is started
C5_Witness ==
    \E c \in Calls :
        /\ ctx[c] # NilErr
        /\ FetchesBeforeCancel(c) = 2
        /\ FetchesAfterCancel(c) = 1
        /\ FetchedNotDone(c)
        /\ Returned(c)
        /\ result[c] = ctx[c]

\* C6: a failing status fetch ends the call at once with an error made of the
\* operation name and the cause; nothing is fetched or awaited after it.
C6_FetchErrorAbortsWait ==
    \A c \in Calls :
        FetchFailed(c)
            => /\ Returned(c)
               /\ result[c].kind # "nil"
               /\ result[c].msg
                    = "could not get operation " \o opName[c] \o ": " \o fetched[c].err.msg
               /\ EndsWithFetchReturn(c)
               /\ Outstanding(c) = 0

C6_Witness ==
    \E c \in Calls :
        /\ FetchFailed(c)
        /\ Returned(c)
        /\ NumSlept(c) = 1
        /\ NumFetches(c) = 2
        /\ result[c].msg = "could not get operation op-1: connection reset by peer"

\* C8: a rejected mutating RPC makes Create / Delete return that error
\* unchanged, without any status fetch or suspend.
C8_RejectedMutationSkipsWaiter ==
    \A c \in Calls :
        mutated[c].err # NilErr
            => /\ Returned(c)
               /\ result[c] = mutated[c].err
               /\ NumFetches(c) = 0
               /\ NumSlept(c) = 0
               /\ Len(Acts(c)) = 2
               /\ IsMutate(Acts(c)[1])
               /\ EndsWithReturn(c)

C8_Witness ==
    \E c \in Calls :
        /\ args[c].kind = "Delete"
        /\ mutated[c].err.code = 404
        /\ Returned(c)
        /\ result[c] = mutated[c].err

\* C9: a call issues exactly one mutating RPC whatever its outcome, and every
\* failure it meets ends it with a non-nil error.
C9_OneMutationNoRetry ==
    \A c \in Calls :
        /\ NumMutates(c) = (IF pc[c] = "idle" THEN 0 ELSE 1)
        /\ (mutated[c].err # NilErr \/ FetchFailed(c) \/ FetchedDoneWithError(c))
              => (Returned(c) /\ result[c] # NilErr)
        /\ (Returned(c) /\ mutated[c].err = NilErr /\ FetchedNotDone(c))
              => (ctx[c] # NilErr /\ result[c] = ctx[c])
        /\ Returned(c) => EndsWithReturn(c)

C9_Witness ==
    \E c \in Calls :
        /\ Returned(c)
        /\ NumMutates(c) = 1
        /\ NumFetches(c) = 3
        /\ result[c].kind = "fmt.wrapError"

\* C10 as stated: a cancellation that falls in an in-flight status fetch ends
\* the wait with ctx.Err() while that fetch is still outstanding.
C10_Original ==
    \A c \in Calls :
        (Returned(c) /\ result[c].kind = "context" /\ CancelledDuringFetch(c))
            => Outstanding(c) = 1

\* C10 amended: when the wait returns ctx.Err() no status fetch is outstanding;
\* every fetch issued has returned, the last one with a not-done status, and
\* the returned error is ctx.Err() alone.
C10_NoFetchOutstandingAtCancelReturn ==
    \A c \in Calls :
        (Returned(c) /\ result[c].kind = "context")
            => /\ Outstanding(c) = 0
               /\ NumFetches(c) >= 1
               /\ FetchedNotDone(c)
               /\ result[c] = ctx[c]

C10_Witness ==
    \E c \in Calls :
        /\ Returned(c)
        /\ result[c].kind = "context"
        /\ CancelledDuringFetch(c)
        /\ Outstanding(c) = 0

\* the steps of a call that has returned after a status fetch: the mutating
\* RPC, then fetch and response, with one elapsed suspend between two fetches
PollShape(a) ==
    /\ Len(a) >= 4
    /\ IsMutate(a[1])
    /\ \A i \in 2..Len(a) :
         LET r == (i - 2) % 3 IN
         /\ r = 0 => IsFetch(a[i])
         /\ r = 1 => a[i].ev = "fetched"
         /\ r = 2 => a[i].ev = (IF i = Len(a) THEN "return" ELSE "slept")

\* all RPCs a call has issued
IsRpc(e) == e.ev = "rpc"
Rpcs(c) == SelectSeq(trace[c], IsRpc)

\* C11: the wait ends only by a DONE fetch, a failing fetch or a done ctx; as
\* long as none of them happens the waiter goes on, one fetch per elapsed
\* suspend, and never returns of its own.
C11_NoDeadline ==
    \A c \in Calls :
        /\ (Returned(c) /\ mutated[c].err = NilErr)
              => \/ FetchedDone(c)
                 \/ FetchFailed(c)
                 \/ (ctx[c] # NilErr /\ result[c] = ctx[c])
        /\ (pc[c] = "select" /\ ctx[c] = NilErr)
              => (FetchedNotDone(c) /\ ENABLED WaitForTimer(c))
        /\ (pc[c] = "waitFor" /\ NumFetches(c) < MaxPolls) => ENABLED WaitForFetch(c)
        /\ pc[c] = "waitFor" => NumFetches(c) = NumSlept(c)
        /\ pc[c] \in {"fetching", "select"} => NumFetches(c) = NumSlept(c) + 1

\* three not-done polls and the waiter is still waiting
C11_Witness ==
    \E c \in Calls :
        /\ pc[c] = "select"
        /\ ctx[c] = NilErr
        /\ NumFetches(c) = 3
        /\ NumSlept(c) = 2
        /\ FetchedNotDone(c)

\* C12: a call whose fetches report not-done k times and then DONE without
\* error issues k+1 fetches, with one elapsed suspend between consecutive
\* fetches and none before the first or after the last, and returns nil.
C12_PollsAndSuspendsAlternate ==
    \A c \in Calls :
        (mutated[c].err = NilErr /\ FetchedDoneNoError(c))
            => /\ NumFetches(c) = NumSlept(c) + 1
               /\ NumFetched(c) = NumFetches(c)
               /\ PollShape(Acts(c))
               /\ Len(Acts(c)) = 1 + 3 * NumFetches(c)
               /\ result[c] = NilErr

\* k = 2: RUNNING, RUNNING, DONE
C12_Witness ==
    \E c \in Calls :
        /\ ctx[c] = NilErr
        /\ FetchedDoneNoError(c)
        /\ Len(Acts(c)) = 10
        /\ NumFetches(c) = 3
        /\ NumSlept(c) = 2
        /\ Acts(c)[4].ev = "slept"
        /\ Acts(c)[7].ev = "slept"
        /\ Acts(c)[10].ev = "return"

\* C15: a done ctx is acted on only in the select: a fetch is issued and its
\* response classified although ctx is done, and the call returns ctx.Err()
\* only after a not-done response.
C15_CancelObservedOnlyInSelect ==
    \A c \in Calls :
        ctx[c] # NilErr
            => /\ (pc[c] = "waitFor" /\ NumFetches(c) < MaxPolls) => ENABLED WaitForFetch(c)
               /\ pc[c] = "fetching"
                    => (ENABLED WaitForFetchReturns(c) /\ ~ENABLED WaitForCtxDone(c))
               /\ (Returned(c) /\ mutated[c].err = NilErr)
                    => /\ NumFetches(c) >= 1
                       /\ Outstanding(c) = 0
                       /\ FetchFailed(c) => result[c].kind = "fmt.wrapError"
                       /\ FetchedDoneNoError(c) => result[c] = NilErr
                       /\ FetchedDoneWithError(c)
                            => (result[c].kind = "ssl.Error"
                                  /\ result[c].operation = fetched[c].operation)
                       /\ FetchedNotDone(c) => result[c] = ctx[c]

\* ctx was done before the call began; the call still succeeds
C15_Witness ==
    \E c \in Calls :
        /\ CancelIdx(c) = 1
        /\ Returned(c)
        /\ NumFetches(c) = 1
        /\ FetchedDoneNoError(c)
        /\ result[c] = NilErr

\* C17: after its mutating RPC a call issues only operation status queries,
\* also when the wait ends by cancellation or by a failing fetch.
C17_WaiterOnlyQueriesStatus ==
    \A c \in Calls :
        \A i \in DOMAIN Rpcs(c) :
            /\ i = 1 => IsMutate(Rpcs(c)[i])
            /\ i > 1 => (IsFetch(Rpcs(c)[i]) /\ Rpcs(c)[i].arg = opName[c])

\* a wait abandoned by cancellation after one fetch
C17_Witness ==
    \E c \in Calls :
        /\ Returned(c)
        /\ result[c].kind = "context"
        /\ Len(Rpcs(c)) = 2
        /\ IsFetch(Rpcs(c)[2])

\* C18: a call returns nil only when its mutating RPC succeeded and its last
\* fetch returned DONE without error detail; it ends in exactly one of the five
\* ways, and the other four return a non-nil error.
C18_NilOnlyOnDoneWithoutError ==
    \A c \in Calls :
        Returned(c)
            => LET rejected == mutated[c].err # NilErr
                   failed == mutated[c].err = NilErr /\ FetchFailed(c)
                   doneErr == mutated[c].err = NilErr /\ FetchedDoneWithError(c)
                   doneOk == mutated[c].err = NilErr /\ FetchedDoneNoError(c)
                   cancelled == mutated[c].err = NilErr /\ FetchedNotDone(c)
               IN /\ Cardinality({w \in {"rejected", "failed", "doneErr", "doneOk", "cancelled"} :
                        \/ w = "rejected" /\ rejected
                        \/ w = "failed" /\ failed
                        \/ w = "doneErr" /\ doneErr
                        \/ w = "doneOk" /\ doneOk
                        \/ w = "cancelled" /\ cancelled}) = 1
                  /\ result[c] = NilErr <=> doneOk
                  /\ rejected => result[c] = mutated[c].err
                  /\ failed => result[c].kind = "fmt.wrapError"
                  /\ doneErr => result[c].kind = "ssl.Error"
                  /\ cancelled => (result[c].kind = "context" /\ result[c] = ctx[c])

C18_Witness ==
    \E c \in Calls :
        /\ args[c].kind = "Delete"
        /\ Returned(c)
        /\ result[c] = NilErr
        /\ NumFetches(c) = 1
        /\ CancelIdx(c) = 0

\* C19: an operation that is not DONE but carries error detail or HTTP error
\* fields is treated as pending: no Error is returned, the waiter is in the
\* select and goes on as for any pending operation.
C19_ErrorDetailIgnoredUntilDone ==
    \A c \in Calls :
        (FetchedNotDone(c)
           /\ (~fetched[c].operation.Error.isNil \/ fetched[c].operation.HttpErrorStatusCode # 0))
            => /\ result[c].kind # "ssl.Error"
               /\ \/ pc[c] = "select" /\ result[c] = NilErr
                  \/ Returned(c) /\ ctx[c] # NilErr /\ result[c] = ctx[c]
               /\ (pc[c] = "select" /\ ctx[c] = NilErr) => ENABLED WaitForTimer(c)
               /\ (pc[c] = "select" /\ ctx[c] # NilErr) => ENABLED WaitForCtxDone(c)

C19_Witness ==
    \E c \in Calls :
        /\ pc[c] = "select"
        /\ fetched[c].operation.Status = "RUNNING"
        /\ HasQuotaEntry(fetched[c].operation.Error.Errors)
        /\ fetched[c].operation.HttpErrorStatusCode = 403
        /\ ctx[c] = NilErr

\* C20: a DONE operation whose error detail is present but has no entries makes
\* the call return an Error, and IsQuotaExceeded of that Error is false.
C20_EmptyErrorDetailIsFailure ==
    \A c \in Calls :
        (FetchedDone(c)
           /\ ~fetched[c].operation.Error.isNil
           /\ fetched[c].operation.Error.Errors = <<>>)
            => /\ Returned(c)
               /\ result[c].kind = "ssl.Error"
               /\ result[c].operation.Error.Errors = <<>>
               /\ ~IsQuotaExceeded(result[c])

C20_Witness ==
    \E c \in Calls :
        /\ Returned(c)
        /\ result[c].kind = "ssl.Error"
        /\ ~result[c].operation.Error.isNil
        /\ Len(result[c].operation.Error.Errors) = 0
        /\ ~IsQuotaExceeded(result[c])

----------------------------------------------------------------------------
(* Properties of several operations of one sslImpl *)

\* every RPC issued so far carries the bound project
AllRpcsInProject ==
    /\ \A c \in Calls : \A i \in DOMAIN Rpcs(c) : Rpcs(c)[i].project = projectID
    /\ \A i \in DOMAIN sync.rpcs : sync.rpcs[i].project = projectID

\* C14: the project identifier never changes after construction, and every
\* RPC (Insert, Delete, Get, List, operation status) carries it.
C14_ProjectBoundForLife ==
    [][projectID' = projectID /\ AllRpcsInProject']_vars

C14_Witness ==
    /\ projectID = "project-2"
    /\ Returned(1)
    /\ NumFetches(1) = 2
    /\ args[1].kind = "Create"
    /\ sync.op = "List"
    /\ AllRpcsInProject

\* everything call c holds
CallState(c) ==
    <<pc[c], args[c], mutated[c], opName[c], ctx[c], fetched[c], result[c], trace[c]>>

\* call c polls its own operation, and what it returns follows from its own
\* responses and its own ctx
OwnOutcome(c) ==
    /\ \A i \in DOMAIN Rpcs(c) : i > 1 => Rpcs(c)[i].arg = opName[c]
    /\ opName[c] = mutated[c].operation.Name
    /\ (Returned(c) /\ mutated[c].err # NilErr) => result[c] = mutated[c].err
    /\ (Returned(c) /\ mutated[c].err = NilErr)
         => /\ NumFetches(c) = NumSlept(c) + 1
            /\ FetchFailed(c)
                 => result[c].msg
                      = "could not get operation " \o opName[c] \o ": " \o fetched[c].err.msg
            /\ FetchedDoneNoError(c) => result[c] = NilErr
            /\ FetchedDoneWithError(c)
                 => (result[c].kind = "ssl.Error" /\ result[c].operation = fetched[c].operation)
            /\ FetchedNotDone(c) => (ctx[c] # NilErr /\ result[c] = ctx[c])

\* C16: concurrent calls are independent: a step of one call (its RPCs, its
\* responses, the cancellation of its ctx, its return) leaves every other
\* call as it was, and each call polls its own operation and returns what its
\* own responses and ctx determine.
C16_CallsAreIndependent ==
    [][/\ \A c, d \in Calls :
            (c # d /\ CallState(c)' # CallState(c)) => CallState(d)' = CallState(d)
       /\ \A c \in Calls : OwnOutcome(c)']_vars

\* one call abandoned by cancellation, the other completed on another operation
C16_Witness ==
    /\ Returned(1)
    /\ result[1].kind = "context"
    /\ Returned(2)
    /\ ctx[2] = NilErr
    /\ result[2] = NilErr
    /\ NumFetches(2) = 2
    /\ opName[1] # opName[2]

----------------------------------------------------------------------------
(* Properties of the synchronous reads *)

\* C7: Exists performs one Get and returns (true, nil) when it succeeds,
\* (false, nil) when its error is a not-found error, and (false, err) with the
\* same error otherwise.
C7_ExistsClassifiesGetError ==
    sync.op = "Exists"
        => /\ sync.rpcs = <<Rpc("SslCertificates.Get", projectID, sync.name)>>
           /\ sync.resp.err = NilErr
                => sync.ret = [exists |-> TRUE, err |-> NilErr]
           /\ (sync.resp.err # NilErr /\ IsNotFound(sync.resp.err))
                => sync.ret = [exists |-> FALSE, err |-> NilErr]
           /\ (sync.resp.err # NilErr /\ ~IsNotFound(sync.resp.err))
                => sync.ret = [exists |-> FALSE, err |-> sync.resp.err]

\* a transport error is reported, not taken for absence
C7_Witness ==
    /\ sync.op = "Exists"
    /\ sync.resp.err.kind = "net.OpError"
    /\ sync.ret = [exists |-> FALSE, err |-> sync.resp.err]

\* C13: List returns the Items of the List RPC as they are, with a nil error,
\* and no collection with the RPC's error when the RPC fails.
C13_ListReturnsItemsUnmodified ==
    sync.op = "List"
        => /\ sync.rpcs = <<Rpc("SslCertificates.List", projectID, "")>>
           /\ sync.resp.err = NilErr
                => /\ sync.ret.err = NilErr
                   /\ ~sync.ret.isNil
                   /\ Len(sync.ret.Items) = Len(sync.resp.Items)
                   /\ \A i \in DOMAIN sync.resp.Items : sync.ret.Items[i] = sync.resp.Items[i]
           /\ sync.resp.err # NilErr
                => /\ sync.ret.isNil
                   /\ sync.ret.Items = <<>>
                   /\ sync.ret.err = sync.resp.err

\* two different certificates, in the order of the response
C13_Witness ==
    /\ sync.op = "List"
    /\ sync.ret.err = NilErr
    /\ Len(sync.ret.Items) = 2
    /\ sync.ret.Items[1] # sync.ret.Items[2]
    /\ sync.ret.Items = sync.resp.Items

====
